---- MODULE Spec2Model ----
(***************************************************************************)
(* Model of tools/validate_data.py: one linear pass over a file tree that  *)
(* classifies every JSON file by its path, applies the matching shape      *)
(* rules, accumulates diagnostics and exits with 0 or 1.                   *)
(*                                                                         *)
(* Strings that the program inspects (paths, file names, JSON strings) are *)
(* sequences of text chunks: "mypublications" is <<"my", "publications">>, *)
(* the separator is the chunk "/".  Substring, prefix and suffix tests are *)
(* computed on the chunk sequence, so a textual test can disagree with a   *)
(* test on whole path segments.                                            *)
(***************************************************************************)
EXTENDS Integers, Sequences, FiniteSets, TLC

VARIABLES tree, stack, root, files, errors, stdout, exitCode, pc, trace

vars == <<tree, stack, root, files, errors, stdout, exitCode, pc, trace>>

\* ------------------------------------------------------------------ bounds
\* longest JSON array in an input document
MaxLen == 2
\* most files in one input tree
MaxFiles == 2

\* ------------------------------------------------------------ text helpers
SEP == "/"

StartsWith(s, pre) ==
    /\ Len(pre) <= Len(s)
    /\ SubSeq(s, 1, Len(pre)) = pre

EndsWith(s, suf) ==
    /\ Len(suf) <= Len(s)
    /\ SubSeq(s, Len(s) - Len(suf) + 1, Len(s)) = suf

Contains(s, sub) ==
    \E i \in 0..(Len(s) - Len(sub)) : SubSeq(s, i + 1, i + Len(sub)) = sub

LastSep(path) ==
    LET idx == {i \in 1..Len(path) : path[i] = SEP}
    IN  IF idx = {} THEN 0 ELSE CHOOSE i \in idx : \A j \in idx : j <= i

\* os.path.join(a, b) for a relative b
Join(a, b) == a \o <<SEP>> \o b

basename(path) == SubSeq(path, LastSep(path) + 1, Len(path))

dirname(path) == SubSeq(path, 1, LastSep(path) - 1)

\* os.path.normpath on the paths os.walk(".") produces: the leading "./" goes
normpath(path) ==
    IF StartsWith(path, <<".", SEP>>) /\ Len(path) > 2
    THEN SubSeq(path, 3, Len(path))
    ELSE path

\* ------------------------------------------------------------- JSON values
Keys ==
    {"identifier", "id", "publication_identifier", "title",
     "author", "author_name", "author_names",
     "character_identifier", "ordinal", "text"}

JNull == [t |-> "null"]
JBool(b) == [t |-> "bool", b |-> b]
JNum(n) == [t |-> "num", n |-> n]
JStr(s) == [t |-> "str", s |-> s]
JList(l) == [t |-> "list", l |-> l]
JDict(d) == [t |-> "dict", d |-> d]
\* a key the mapping does not have
Absent == [t |-> "absent"]
\* file content that is not JSON text
ParseFail == [t |-> "invalid"]

isdict(obj) == obj.t = "dict"

islist(obj) == obj.t = "list"

\* k in obj, for a mapping
HasKey(obj, k) == obj.d[k] # Absent

\* str(x)
Str(x) ==
    CASE x.t = "str" -> x.s
      [] x.t = "null" -> <<"None">>
      [] x.t = "bool" -> IF x.b THEN <<"True">> ELSE <<"False">>
      [] x.t = "num" -> <<ToString(x.n)>>
      [] OTHER -> <<"repr">>

\* ---------------------------------------------------------- path predicates
is_publication_manifest(path) ==
    /\ basename(path) = <<"manifest", ".json">>
    /\ Contains(path, <<SEP, "publications", SEP>>)

is_dialogues(path) ==
    /\ basename(path) = <<"dialogues", ".json">>
    /\ Contains(path, <<SEP, "segments", SEP>>)

is_recent(path) ==
    EndsWith(normpath(path), Join(<<"publications">>, <<"recent", ".json">>))

is_generic(path) == Contains(path, <<SEP, "publications", SEP>>)

\* --------------------------------------------------------------- lookups
\* the first index of keys whose key the mapping has, 0 when there is none
FirstPresent(obj, keys) ==
    LET present == {i \in 1..Len(keys) : HasKey(obj, keys[i])}
    IN  IF present = {} THEN 0 ELSE CHOOSE i \in present : \A j \in present : i <= j

\* the value under the first present key; None (= JSON null) when obj is no
\* mapping or has none of the keys
FirstValue(obj, keys) ==
    IF ~isdict(obj) \/ FirstPresent(obj, keys) = 0
    THEN JNull
    ELSE obj.d[keys[FirstPresent(obj, keys)]]

\* faulty variant: the aliases id and publication_identifier are not consulted
get_identifier_no_alias(obj) == FirstValue(obj, <<"identifier">>)

get_identifier_from(obj) ==
    FirstValue(obj, <<"identifier", "id", "publication_identifier">>)

get_author_from(obj) ==
    FirstValue(obj, <<"author", "author_name", "author_names">>)

\* ------------------------------------------------------------- diagnostics
Diag(kind, path, idx, field) ==
    [kind |-> kind, path |-> path, idx |-> idx, field |-> field]

Opt(cond, d) == IF cond THEN <<d>> ELSE <<>>

\* r in data, where Python defines it
In(r, data) ==
    CASE isdict(data) -> HasKey(data, r)
      [] islist(data) -> \E i \in 1..Len(data.l) : data.l[i] = JStr(<<r>>)
      [] data.t = "str" -> Contains(data.s, <<r>>)
      [] OTHER -> FALSE

\* r not in data raises TypeError for a number, a boolean and None
ManifestRaises(data) == data.t \in {"null", "bool", "num"}

RequiredErrors(path, data) ==
    Opt(~In("identifier", data),
        Diag("Missing required manifest field", path, -1, "identifier"))
    \o Opt(~In("title", data),
           Diag("Missing required manifest field", path, -1, "title"))

IdentifierErrors(path, data) ==
    LET parent_dir == basename(dirname(path))
        identifier == get_identifier_from(data)
    IN  IF identifier # JNull /\ parent_dir # Str(identifier)
        THEN <<Diag("Parent dir != identifier", path, -1, "")>>
        ELSE IF identifier = JNull
        THEN <<Diag("manifest missing identifier field", path, -1, "")>>
        ELSE <<>>

ManifestErrors(path, data) ==
    RequiredErrors(path, data) \o IdentifierErrors(path, data)

\* faulty variant: the key text is not among the required fields
DialogueEntryErrorsNoText(path, i, item) ==
    IF ~isdict(item)
    THEN <<Diag("dialogue entry not an object", path, i, "")>>
    ELSE Opt(~HasKey(item, "character_identifier"),
             Diag("Missing required dialogue field", path, i, "character_identifier"))
         \o Opt(~HasKey(item, "ordinal"),
                Diag("Missing required dialogue field", path, i, "ordinal"))

DialogueEntryErrors(path, i, item) ==
    IF ~isdict(item)
    THEN <<Diag("dialogue entry not an object", path, i, "")>>
    ELSE Opt(~HasKey(item, "character_identifier"),
             Diag("Missing required dialogue field", path, i, "character_identifier"))
         \o Opt(~HasKey(item, "ordinal"),
                Diag("Missing required dialogue field", path, i, "ordinal"))
         \o Opt(~HasKey(item, "text"),
                Diag("Missing required dialogue field", path, i, "text"))

RECURSIVE DialogueItems(_, _, _)
DialogueItems(path, l, n) ==
    IF n > Len(l) THEN <<>>
    ELSE DialogueEntryErrors(path, n - 1, l[n]) \o DialogueItems(path, l, n + 1)

DialoguesErrors(path, data) ==
    IF ~islist(data)
    THEN <<Diag("dialogues file should be a JSON array", path, -1, "")>>
    ELSE DialogueItems(path, data.l, 1)

RecentEntryErrors(path, i, item) ==
    IF ~isdict(item)
    THEN <<Diag("recent entry not an object", path, i, "")>>
    ELSE Opt(get_identifier_from(item) = JNull,
             Diag("missing publication identifier", path, i, ""))
         \o Opt(get_author_from(item) = JNull,
                Diag("missing author field", path, i, ""))

RECURSIVE RecentItems(_, _, _)
RecentItems(path, l, n) ==
    IF n > Len(l) THEN <<>>
    ELSE RecentEntryErrors(path, n - 1, l[n]) \o RecentItems(path, l, n + 1)

RecentErrors(path, data) ==
    IF ~islist(data)
    THEN <<Diag("expected array of recent items", path, -1, "")>>
    ELSE RecentItems(path, data.l, 1)

GenericErrors(path, data) ==
    Opt(isdict(data) /\ get_identifier_from(data) = JNull,
        Diag("expected an identifier key", path, -1, ""))

\* faulty variant: new diagnostics go to the front of the list
EmitFront(errs, new) == new \o errs

\* errors.append, once per new diagnostic
Emit(errs, new) == errs \o new

\* ------------------------------------------------------------ the file tree
\* faulty variant: only the vendored directories are pruned, not the hidden ones
skip_dirs_vendored == {<<"node_modules">>, <<"__pycache__">>}

skip_dirs == {<<".git">>, <<".github">>, <<"node_modules">>, <<"__pycache__">>}

\* fname.endswith(".json") fails, or the name is meta.json or starts with package
Skipped(fname) ==
    \/ ~EndsWith(fname, <<".json">>)
    \/ fname = <<"meta", ".json">>
    \/ StartsWith(fname, <<"package">>)

\* the root os.walk(".") reports for the directory with the names d
RECURSIVE RootOf(_)
RootOf(d) ==
    IF d = <<>> THEN <<".">>
    ELSE Join(RootOf(SubSeq(d, 1, Len(d) - 1)), d[Len(d)])

FilePath(f) == Join(RootOf(f.dir), f.name)

read_json(path) == (CHOOSE f \in tree : FilePath(f) = path).data

IsPrefixOf(a, b) == Len(a) <= Len(b) /\ SubSeq(b, 1, Len(a)) = a

\* the entries of directory d that are directories, and those that are files
SubDirs(d) ==
    {SubSeq(f.dir, 1, Len(d) + 1) : f \in {g \in tree : IsPrefixOf(d, g.dir) /\ g.dir # d}}

FilesIn(d) == {f.name : f \in {g \in tree : g.dir = d}}

\* the orders in which a directory listing can report the set S
Orderings(S) ==
    IF S = {} THEN {<<>>}
    ELSE {s \in [1..Cardinality(S) -> S] : \A i, j \in 1..Cardinality(S) : i # j => s[i] # s[j]}

\* the branch of the if/elif chain a parsed file takes
Classify(path) ==
    IF is_publication_manifest(path) THEN "manifest"
    ELSE IF is_dialogues(path) THEN "dialogues"
    ELSE IF is_recent(path) THEN "recent"
    ELSE IF is_generic(path) THEN "generic"
    ELSE "unclassified"

\* faulty variant: the except branch lacks its continue, so the checks of the
\* classification run on a document that is None
ParseErrorsFallThrough(path) ==
    <<Diag("JSON parse error", path, -1, "")>>
    \o (CASE Classify(path) = "dialogues" -> DialoguesErrors(path, JNull)
          [] Classify(path) = "recent" -> RecentErrors(path, JNull)
          [] OTHER -> <<>>)

ParseErrors(path) == <<Diag("JSON parse error", path, -1, "")>>

\* ------------------------------------------------------------------ inputs
PUB == <<"publications">>
MYPUB == <<"my", "publications">>
SEG == <<"segments">>
DX == <<"X">>
DY == <<"Y">>
GIT == <<".git">>
GITHUB == <<".github">>
NODE == <<"node_modules">>
PYC == <<"__pycache__">>

F_MANIFEST == <<"manifest", ".json">>
F_DIALOGUES == <<"dialogues", ".json">>
F_RECENT == <<"recent", ".json">>
F_OTHER == <<"other", ".json">>
F_META == <<"meta", ".json">>
F_PACKAGE == <<"package", ".json">>
F_NOTES == <<"notes", ".md">>

DirPaths ==
    {<<>>, <<PUB>>, <<PUB, DX>>, <<PUB, DX, DY>>, <<PUB, DX, SEG>>, <<MYPUB>>,
     <<SEG>>, <<DX>>, <<GIT>>, <<PUB, NODE>>, <<PUB, DX, PYC>>, <<GITHUB, PUB, DX>>}

FileNames == {F_MANIFEST, F_DIALOGUES, F_RECENT, F_OTHER, F_META, F_PACKAGE, F_NOTES}

SX == JStr(<<"X">>)
SY == JStr(<<"Y">>)
ST == JStr(<<"T">>)

\* the mapping with the given values under the given keys and no other key
Obj(f) == JDict([k \in Keys |-> IF k \in DOMAIN f THEN f[k] ELSE Absent])

ManifestDocs ==
    {JDict([k \in Keys |->
              CASE k = "identifier" -> a
                [] k = "id" -> b
                [] k = "publication_identifier" -> c
                [] k = "title" -> tt
                [] OTHER -> Absent]) :
        a \in {Absent, JNull, SX, SY}, b \in {Absent, JNull, SX},
        c \in {Absent, SX}, tt \in {Absent, ST}}

DialogueElems ==
    {JStr(<<"title">>)} \cup
    {JDict([k \in Keys |->
              CASE k = "character_identifier" -> a
                [] k = "ordinal" -> b
                [] k = "text" -> c
                [] OTHER -> Absent]) :
        a \in {Absent, SX}, b \in {Absent, JNum(1)}, c \in {Absent, ST}}

RecentElems ==
    {JNum(1),
     Obj([id |-> SX]),
     Obj([id |-> JNull, author |-> SX]),
     Obj([publication_identifier |-> SX, author_names |-> JNull]),
     Obj([identifier |-> JNull, id |-> SX, author_name |-> SX]),
     Obj([id |-> SX, author |-> SX])}

SeqsUpTo(S, n) == UNION {[1..k -> S] : k \in 0..n}

Arrays == {JList(l) : l \in SeqsUpTo(DialogueElems, MaxLen) \cup SeqsUpTo(RecentElems, MaxLen)}

Scalars == {JNull, JBool(TRUE), JNum(1), JStr(<<"hello">>), JStr(<<"my", "identifier">>)}

Docs == ManifestDocs \cup Arrays \cup Scalars \cup {ParseFail}

File(d, n, x) == [dir |-> d, name |-> n, data |-> x]

\* every one-file tree
SingleFiles == {File(d, n, x) : d \in DirPaths, n \in FileNames, x \in Docs}

\* the files that trees of several files are made of
SmallFiles ==
    {File(<<PUB, DX>>, F_MANIFEST, Obj([title |-> ST])),
     File(<<PUB, DY>>, F_MANIFEST, JNum(1)),
     File(<<PUB, DX, SEG>>, F_DIALOGUES, JList(<<Obj([text |-> ST]), JStr(<<"title">>)>>)),
     File(<<PUB>>, F_RECENT, JList(<<Obj([id |-> SX])>>)),
     File(<<PUB, DX>>, F_OTHER, Obj([title |-> ST])),
     File(<<PUB, DY>>, F_OTHER, ParseFail),
     File(<<>>, F_OTHER, ParseFail),
     File(<<>>, F_NOTES, ParseFail),
     File(<<GIT>>, F_OTHER, ParseFail),
     File(<<PUB, NODE>>, F_MANIFEST, Obj([title |-> ST])),
     File(<<PUB, DX>>, F_META, JNull),
     File(<<DX>>, F_OTHER, JNull),
     File(<<MYPUB>>, F_RECENT, JBool(TRUE))}

Trees ==
    {{f} : f \in SingleFiles}
    \cup {S \in SUBSET SmallFiles : Cardinality(S) <= MaxFiles}

\* ------------------------------------------------------------------- output
NoDiag == Diag("", <<>>, -1, "")

Line(what, n, d) == [line |-> what, n |-> n, diag |-> d]

Visit(path, cls) == [path |-> path, cls |-> cls]

\* ------------------------------------------------------------------ actions
Init ==
    /\ tree \in Trees
    /\ stack = << <<>> >>
    /\ root = <<>>
    /\ files = <<>>
    /\ errors = <<>>
    /\ stdout = <<Line("starting", -1, NoDiag)>>
    /\ exitCode = -1
    /\ pc = "loop"
    /\ trace = <<>>

\* os.walk yields the next directory; the loop body prunes dirs in place
WalkDir ==
    /\ pc = "loop"
    /\ files = <<>>
    /\ stack # <<>>
    /\ LET d == Head(stack)
           kept == {c \in SubDirs(d) : c[Len(c)] \notin skip_dirs}
       IN  \E ds \in Orderings(kept), fs \in Orderings(FilesIn(d)) :
               /\ stack' = ds \o Tail(stack)
               /\ files' = fs
               /\ root' = RootOf(d)
    /\ UNCHANGED <<tree, errors, stdout, exitCode, pc, trace>>

\* one iteration of the loop over files leaves the rest of the state alone
NextFile(path, cls) ==
    /\ files' = Tail(files)
    /\ trace' = Append(trace, Visit(path, cls))
    /\ UNCHANGED <<tree, stack, root, stdout, exitCode, pc>>

SkipFile ==
    /\ pc = "loop"
    /\ files # <<>>
    /\ Skipped(Head(files))
    /\ NextFile(Join(root, Head(files)), "skipped")
    /\ UNCHANGED errors

ParseError ==
    /\ pc = "loop"
    /\ files # <<>>
    /\ ~Skipped(Head(files))
    /\ LET path == Join(root, Head(files))
       IN  /\ read_json(path) = ParseFail
           /\ errors' = Emit(errors, ParseErrors(path))
           /\ NextFile(path, "parse error")

\* the file at the head of files parsed and takes branch cls
Parsed(cls) ==
    /\ pc = "loop"
    /\ files # <<>>
    /\ ~Skipped(Head(files))
    /\ read_json(Join(root, Head(files))) # ParseFail
    /\ Classify(Join(root, Head(files))) = cls

ValidateManifest ==
    /\ Parsed("manifest")
    /\ LET path == Join(root, Head(files))
           data == read_json(path)
       IN  /\ ~ManifestRaises(data)
           /\ errors' = Emit(errors, ManifestErrors(path, data))
           /\ NextFile(path, "manifest")

\* the TypeError of the required-field loop is caught nowhere
ManifestTypeError ==
    /\ Parsed("manifest")
    /\ ManifestRaises(read_json(Join(root, Head(files))))
    /\ pc' = "crashed"
    /\ exitCode' = 1
    /\ trace' = Append(trace, Visit(Join(root, Head(files)), "manifest"))
    /\ UNCHANGED <<tree, stack, root, files, errors, stdout>>

ValidateDialogues ==
    /\ Parsed("dialogues")
    /\ LET path == Join(root, Head(files))
       IN  /\ errors' = Emit(errors, DialoguesErrors(path, read_json(path)))
           /\ NextFile(path, "dialogues")

ValidateRecent ==
    /\ Parsed("recent")
    /\ LET path == Join(root, Head(files))
       IN  /\ errors' = Emit(errors, RecentErrors(path, read_json(path)))
           /\ NextFile(path, "recent")

ValidateGeneric ==
    /\ Parsed("generic")
    /\ LET path == Join(root, Head(files))
       IN  /\ errors' = Emit(errors, GenericErrors(path, read_json(path)))
           /\ NextFile(path, "generic")

Unclassified ==
    /\ Parsed("unclassified")
    /\ NextFile(Join(root, Head(files)), "unclassified")
    /\ UNCHANGED errors

Finish ==
    /\ pc = "loop"
    /\ files = <<>>
    /\ stack = <<>>
    /\ IF errors # <<>>
       THEN /\ stdout' = stdout \o <<Line("found issues", Len(errors), NoDiag)>>
                         \o [i \in 1..Len(errors) |-> Line("issue", -1, errors[i])]
            /\ exitCode' = 1
       ELSE /\ stdout' = Append(stdout, Line("passed", -1, NoDiag))
            /\ exitCode' = 0
    /\ pc' = "done"
    /\ UNCHANGED <<tree, stack, root, files, errors, trace>>

Next ==
    \/ WalkDir
    \/ SkipFile
    \/ ParseError
    \/ ValidateManifest
    \/ ManifestTypeError
    \/ ValidateDialogues
    \/ ValidateRecent
    \/ ValidateGeneric
    \/ Unclassified
    \/ Finish

Spec == Init /\ [][Next]_vars

\* ----------------------------------------------------- helpers of the claims
\* the segments of a path: the text between the separators
RECURSIVE Split(_)
Split(p) ==
    IF LastSep(p) = 0 THEN <<p>>
    ELSE Append(Split(SubSeq(p, 1, LastSep(p) - 1)), SubSeq(p, LastSep(p) + 1, Len(p)))

FileAt(path) == CHOOSE f \in tree : FilePath(f) = path

\* the diagnostics emitted so far for one path, in order
DiagsFor(path) ==
    LET Here(e) == e.path = path
    IN  SelectSeq(errors, Here)

CountKind(ds, kind) == Cardinality({n \in 1..Len(ds) : ds[n].kind = kind})

\* the file the loop is about to handle
HeadPath == Join(root, Head(files))

AtFile == pc = "loop" /\ files # <<>>

\* the file name passes the filters of the traversal
NotFiltered(fname) ==
    /\ fname[Len(fname)] = ".json"
    /\ fname # <<"meta", ".json">>
    /\ fname[1] # "package"

\* the first key among identifier, id, publication_identifier that the mapping
\* has carries null
NullIdentifier(obj) ==
    /\ obj.t = "dict"
    /\ \/ obj.d["identifier"] = JNull
       \/ obj.d["identifier"] = Absent /\ obj.d["id"] = JNull
       \/ /\ obj.d["identifier"] = Absent
          /\ obj.d["id"] = Absent
          /\ obj.d["publication_identifier"] = JNull

IgnoredNames == {<<".git">>, <<".github">>, <<"node_modules">>, <<"__pycache__">>}

\* the path lies inside a directory with an ignored name
InIgnored(path) ==
    \E i \in 2..(Len(Split(path)) - 1) : Split(path)[i] \in IgnoredNames

\* publications/<dir>/manifest.json
ManifestShape(path) ==
    LET s == Split(path)
        n == Len(s)
    IN  /\ n >= 3
        /\ s[n] = <<"manifest", ".json">>
        /\ s[n - 2] = <<"publications">>

\* the last two segments of the normalized path are publications, recent.json
RecentShape(path) ==
    LET s == Split(normpath(path))
        n == Len(s)
    IN  /\ n >= 2
        /\ s[n] = <<"recent", ".json">>
        /\ s[n - 1] = <<"publications">>

DialogueKinds ==
    {"dialogues file should be a JSON array", "dialogue entry not an object",
     "Missing required dialogue field"}

RecentKinds ==
    {"expected array of recent items", "recent entry not an object",
     "missing publication identifier", "missing author field"}

\* ------------------------------------------------------------------ claims

\* C1: when the run has ended, the exit code is 1 exactly when the diagnostic
\* sequence is non-empty and 0 exactly when it is empty, the printed count is
\* the length of the sequence and every diagnostic is printed once, in order.
C1_ExitCodeIffDiagnostics ==
    exitCode # -1 =>
        /\ exitCode = 1 <=> errors # <<>>
        /\ exitCode = 0 <=> errors = <<>>
        /\ errors # <<>> =>
              stdout = <<Line("starting", -1, NoDiag),
                         Line("found issues", Len(errors), NoDiag)>>
                       \o [i \in 1..Len(errors) |-> Line("issue", -1, errors[i])]

\* C2: a mapping whose first present identifier key carries null counts as
\* having an identifier: no "missing identifier" diagnostic of a manifest, of
\* a recent element or of a generic publication file is emitted for it.
C2_NullIdentifierCountsAsFound ==
    \A k \in 1..Len(errors) :
        LET e == errors[k]
            x == FileAt(e.path).data
        IN  /\ e.kind = "manifest missing identifier field" => ~NullIdentifier(x)
            /\ e.kind = "expected an identifier key" => ~NullIdentifier(x)
            /\ e.kind = "missing publication identifier" => ~NullIdentifier(x.l[e.idx + 1])

\* C3: the checks of a file that parsed always complete: the step appends
\* zero or more diagnostics, moves on to the next file and the run does not
\* end before the output step, whatever the JSON type and the classification.
C3_ShapeViolationNeverAborts ==
    [][(AtFile /\ NotFiltered(Head(files)) /\ read_json(HeadPath) # ParseFail)
         => /\ pc' = "loop"
            /\ files' = Tail(files)
            /\ IsPrefixOf(errors, errors')]_vars

\* C4: a file that passes the filters and does not parse gets exactly one
\* diagnostic, the JSON parse error of its path, whatever its classification,
\* and the traversal goes on with the files that remain.
C4_ParseFailureOneDiagnostic ==
    [][(AtFile /\ NotFiltered(Head(files)) /\ read_json(HeadPath) = ParseFail)
         => /\ errors' = Append(errors, Diag("JSON parse error", HeadPath, -1, ""))
            /\ files' = Tail(files)
            /\ stack' = stack
            /\ pc' = "loop"]_vars

C4_Witness ==
    /\ pc = "done"
    /\ Len(trace) >= 2
    /\ trace[1].cls = "parse error"
    /\ \E k \in 1..Len(trace) :
          /\ trace[k].cls = "parse error"
          /\ Classify(trace[k].path) = "generic"
          /\ CountKind(DiagsFor(trace[k].path), "JSON parse error") = 1

\* C5: no diagnostic names a path inside a directory called .git, .github,
\* node_modules or __pycache__, and no file of such a directory is visited.
C5_IgnoredDirsPruned ==
    /\ \A k \in 1..Len(errors) : ~InIgnored(errors[k].path)
    /\ \A k \in 1..Len(trace) : ~InIgnored(trace[k].path)

C5_Witness ==
    /\ pc = "done"
    /\ errors # <<>>
    /\ \E f \in tree :
          /\ InIgnored(FilePath(f))
          /\ NotFiltered(f.name)
          /\ f.data = ParseFail

\* a manifest that is a mapping with a title and without the key identifier
TitleOnly(e) ==
    /\ e.cls = "manifest"
    /\ FileAt(e.path).data.t = "dict"
    /\ FileAt(e.path).data.d["title"] # Absent
    /\ FileAt(e.path).data.d["identifier"] = Absent

\* neither id nor publication_identifier resolves to a value other than null
NoAlias(x) ==
    \/ x.d["id"] = JNull
    \/ x.d["id"] = Absent /\ x.d["publication_identifier"] \in {Absent, JNull}

\* C6 as stated: a manifest mapping with a title and without the key
\* identifier gets exactly two diagnostics, one "Missing required manifest
\* field" for identifier and one "manifest missing identifier field".
C6_Original ==
    \A k \in 1..Len(trace) :
        (TitleOnly(trace[k]) /\ ManifestShape(trace[k].path)) =>
            LET ds == DiagsFor(trace[k].path)
            IN  /\ Len(ds) = 2
                /\ CountKind(ds, "Missing required manifest field") = 1
                /\ CountKind(ds, "manifest missing identifier field") = 1

\* C6 amended: such a manifest gets exactly one "Missing required manifest
\* field", for identifier; when neither id nor publication_identifier
\* resolves to a non-null value it gets exactly one more diagnostic, "manifest
\* missing identifier field"; otherwise it gets no "manifest missing
\* identifier field" and at most one more diagnostic, the parent directory
\* mismatch.
C6_Amended ==
    \A k \in 1..Len(trace) :
        TitleOnly(trace[k]) =>
            LET ds == DiagsFor(trace[k].path)
                x == FileAt(trace[k].path).data
            IN  /\ CountKind(ds, "Missing required manifest field") = 1
                /\ ds[1] = Diag("Missing required manifest field", trace[k].path, -1,
                                "identifier")
                /\ IF NoAlias(x)
                   THEN /\ Len(ds) = 2
                        /\ ds[2].kind = "manifest missing identifier field"
                   ELSE /\ CountKind(ds, "manifest missing identifier field") = 0
                        /\ Len(ds) = 1 + CountKind(ds, "Parent dir != identifier")
                        /\ Len(ds) <= 2

C6_Witness ==
    \E k \in 1..Len(trace) :
        /\ TitleOnly(trace[k])
        /\ NoAlias(FileAt(trace[k].path).data)
        /\ Len(DiagsFor(trace[k].path)) = 2
        /\ ManifestShape(trace[k].path)

\* C7: in a dialogues file that is an array, the element at 0-based index i
\* gives exactly one "not an object" diagnostic when it is no mapping, and
\* otherwise one diagnostic per absent key among character_identifier,
\* ordinal, text, each with the path, the index i of the array and the field;
\* a dialogues file that is no array gives exactly one diagnostic.
C7_DialogueDiagnostics ==
    /\ \A n \in 1..Len(errors) :
          errors[n].kind \in DialogueKinds =>
              \E k \in 1..Len(trace) :
                  trace[k].path = errors[n].path /\ trace[k].cls = "dialogues"
    /\ \A k \in 1..Len(trace) :
        trace[k].cls = "dialogues" =>
            LET x == FileAt(trace[k].path).data
                ds == DiagsFor(trace[k].path)
            IN  IF x.t # "list"
                THEN /\ Len(ds) = 1
                     /\ ds[1].kind = "dialogues file should be a JSON array"
                ELSE /\ \A n \in 1..Len(ds) : ds[n].idx \in 0..(Len(x.l) - 1)
                     /\ \A i \in 0..(Len(x.l) - 1) :
                           LET AtI(d) == d.idx = i
                               at == SelectSeq(ds, AtI)
                               item == x.l[i + 1]
                           IN  IF item.t # "dict"
                               THEN /\ Len(at) = 1
                                    /\ at[1].kind = "dialogue entry not an object"
                               ELSE /\ \A n \in 1..Len(at) :
                                          at[n].kind = "Missing required dialogue field"
                                    /\ \A rf \in {"character_identifier", "ordinal", "text"} :
                                          Cardinality({n \in 1..Len(at) : at[n].field = rf})
                                            = IF item.d[rf] = Absent THEN 1 ELSE 0
                                    /\ Len(at) =
                                          Cardinality({rf \in {"character_identifier",
                                                               "ordinal", "text"} :
                                                          item.d[rf] = Absent})

C7_Witness ==
    \E k \in 1..Len(trace) :
        /\ trace[k].cls = "dialogues"
        /\ FileAt(trace[k].path).data.t = "list"
        /\ Len(FileAt(trace[k].path).data.l) = 2
        /\ FileAt(trace[k].path).data.l[1].t = "str"
        /\ FileAt(trace[k].path).data.l[2].t = "dict"
        /\ Len(DiagsFor(trace[k].path)) = 3

\* C8: a parsed file is validated with the manifest rules exactly when it is
\* a manifest.json directly inside a child directory of a directory named
\* publications.
C8_ManifestOnlyUnderPublicationChild ==
    \A k \in 1..Len(trace) :
        trace[k].cls \notin {"skipped", "parse error"} =>
            (trace[k].cls = "manifest" <=> ManifestShape(trace[k].path))

\* C9: a parsed file that is neither a manifest nor a dialogues file is
\* validated with the recent rules exactly when the last two segments of its
\* normalized path are publications and recent.json, and no recent-file
\* diagnostic names any other path.
C9_RecentOnlyBySegments ==
    /\ \A k \in 1..Len(trace) :
          trace[k].cls \in {"recent", "generic", "unclassified"} =>
              (trace[k].cls = "recent" <=> RecentShape(trace[k].path))
    /\ \A k \in 1..Len(errors) :
          errors[k].kind \in RecentKinds => RecentShape(errors[k].path)

\* the position of a path in the order of the visits
VisitIdx(path) == CHOOSE k \in 1..Len(trace) : trace[k].path = path

\* the diagnostics are grouped by file, in the order of the visits
Ordered ==
    /\ \A i \in 1..Len(errors) : \E k \in 1..Len(trace) : trace[k].path = errors[i].path
    /\ \A i, j \in 1..Len(errors) :
          i < j => VisitIdx(errors[i].path) <= VisitIdx(errors[j].path)

\* C10: the diagnostic sequence only grows at its end: each step leaves the
\* old sequence as a prefix of the new one, and the diagnostics of a file
\* visited earlier all come before those of a file visited later.
C10_AppendOnlyInVisitOrder ==
    [][IsPrefixOf(errors, errors') /\ Ordered']_vars

C10_Witness ==
    /\ pc = "done"
    /\ Len(errors) >= 3
    /\ \E i, j \in 1..Len(errors) :
          /\ i + 1 < j
          /\ errors[i].path # errors[j].path

====
